---------------------------- MODULE Spec2Model ----------------------------
(***************************************************************************)
(* QuantumNet web gateway (src/ui/app.py): five FastAPI handlers, each of  *)
(* which forwards a validated client request to the Rust backend with one  *)
(* `requests` call and maps the backend's answer to the client's outcome.  *)
(*                                                                         *)
(* A handler invocation is modelled per worker thread c:                   *)
(*   idle --Accept--> waiting --BackendRespond--> answered                 *)
(*        --Finish--> done --Deliver--> idle                               *)
(* Accept runs the handler up to its blocking requests.post/get call,      *)
(* BackendRespond is the backend's (or the transport's) answer arriving in *)
(* the handler's local `response`, Finish is the rest of the handler body. *)
(*                                                                         *)
(* Texts (response.text, HTTPException detail, URLs) are sequences of      *)
(* character tokens, so that parsing and formatting are computed.          *)
(***************************************************************************)
EXTENDS Integers, Sequences, FiniteSets, TLC

VARIABLES
    RUST_API_URL,   \* module-level backend base address (app.py:12)
    pc,             \* pc[c]: where worker c's handler invocation stands
    req,            \* req[c]: the validated request worker c is handling
    calls,          \* calls[c]: outbound HTTP calls issued for req[c], in order
    resp,           \* resp[c]: the handler's local `response`
    result,         \* result[c]: what the handler returned or raised
    registry,       \* node ids the uniqueness-enforcing backend has registered
    regCount        \* regCount[n]: register calls for n answered so far

vars == <<RUST_API_URL, pc, req, calls, resp, result, registry, regCount>>

---------------------------------------------------------------------------
(* Bounds of the model *)

MaxNode == 2        \* node ids are 1..MaxNode
MaxBodyLen == 2     \* backend body texts have at most this many characters
MaxClients == 2     \* concurrent handler invocations (FastAPI threadpool)
MaxCalls == 3       \* register calls per node id against the unique backend

NodeIds == 1..MaxNode
Clients == 1..MaxClients
Messages == {"hi"}
Chars == {"1", " ", "[", "]"}
TextsUpTo(n) == UNION {[1..k -> Chars] : k \in 0..n}
Bodies == TextsUpTo(MaxBodyLen)
Statuses == {200, 201, 204, 404, 409}

---------------------------------------------------------------------------
(* Request payloads: the pydantic models, and the path parameter of        *)
(* get_node_status.  `op` names the handler the route decorator selects.   *)

RegisterNodeRequest == [op : {"register"}, node_id : NodeIds]
EntangleNodesRequest == [op : {"entangle"}, node1 : NodeIds, node2 : NodeIds]
KeyExchangeRequest == [op : {"exchange_keys"}, node1 : NodeIds, node2 : NodeIds]
SendMessageRequest ==
    [op : {"send_message"}, sender_id : NodeIds, receiver_id : NodeIds,
     message : Messages]
NodeStatusRequest == [op : {"node_status"}, node_id : NodeIds]

Requests ==
    RegisterNodeRequest \cup EntangleNodesRequest \cup KeyExchangeRequest
        \cup SendMessageRequest \cup NodeStatusRequest

NoRequest == [op |-> "none"]
NoResponse == [kind |-> "none"]
NoResult == [kind |-> "none"]

(* The client-facing route of each handler (the decorators). *)
Route(op) ==
    CASE op = "register" -> [method |-> "POST", path |-> "/register"]
      [] op = "entangle" -> [method |-> "POST", path |-> "/entangle"]
      [] op = "exchange_keys" -> [method |-> "POST", path |-> "/exchange_keys"]
      [] op = "send_message" -> [method |-> "POST", path |-> "/send_message"]
      [] op = "node_status" -> [method |-> "GET", path |-> "/node_status/"]

---------------------------------------------------------------------------
(* Text helpers *)

Digit == <<"0", "1", "2", "3", "4", "5", "6", "7", "8", "9">>

(* str(n) of a non-negative int, as the f-string of get_node_status formats it *)
RECURSIVE IntToText(_)
IntToText(n) ==
    IF n < 10 THEN <<Digit[n + 1]>>
    ELSE IntToText(n \div 10) \o <<Digit[(n % 10) + 1]>>

(* Variant of dict: the entangle payload's two node fields exchanged. *)
dict_swapped(request) ==
    CASE request.op = "register" -> [node_id |-> request.node_id]
      [] request.op = "entangle" ->
            [node1 |-> request.node2, node2 |-> request.node1]
      [] request.op = "exchange_keys" ->
            [node1 |-> request.node1, node2 |-> request.node2]
      [] request.op = "send_message" ->
            [sender_id |-> request.sender_id,
             receiver_id |-> request.receiver_id,
             message |-> request.message]

(* request.dict(): the payload's fields, by name *)
dict(request) ==
    CASE request.op = "register" -> [node_id |-> request.node_id]
      [] request.op = "entangle" ->
            [node1 |-> request.node1, node2 |-> request.node2]
      [] request.op = "exchange_keys" ->
            [node1 |-> request.node1, node2 |-> request.node2]
      [] request.op = "send_message" ->
            [sender_id |-> request.sender_id,
             receiver_id |-> request.receiver_id,
             message |-> request.message]

NoJson == [none |-> TRUE]

(* The one outbound call of each handler: requests.post(url, json=...) or  *)
(* requests.get(url), the url an f-string over RUST_API_URL.               *)
OutboundCall(base, request) ==
    CASE request.op = "register" ->
            [method |-> "POST", url |-> <<base, "/register">>,
             json |-> dict(request)]
      [] request.op = "entangle" ->
            [method |-> "POST", url |-> <<base, "/entangle">>,
             json |-> dict(request)]
      [] request.op = "exchange_keys" ->
            [method |-> "POST", url |-> <<base, "/exchange_keys">>,
             json |-> dict(request)]
      [] request.op = "send_message" ->
            [method |-> "POST", url |-> <<base, "/send_message">>,
             json |-> dict(request)]
      [] request.op = "node_status" ->
            [method |-> "GET",
             url |-> <<base, "/node_status/">> \o IntToText(request.node_id),
             json |-> NoJson]

---------------------------------------------------------------------------
(* response.json(): the body text parsed as JSON.  The grammar over Chars  *)
(* is  ws value ws,  value ::= 1+ | [ ws ] | [ ws value ws ].  A parsed    *)
(* value is represented by its tokens without insignificant whitespace.    *)

RECURSIVE SkipWs(_)
SkipWs(s) == IF s # <<>> /\ Head(s) = " " THEN SkipWs(Tail(s)) ELSE s

RECURSIVE ParseNumber(_)
ParseNumber(s) ==
    IF s # <<>> /\ Head(s) = "1"
    THEN LET r == ParseNumber(Tail(s))
         IN  [value |-> <<"1">> \o r.value, rest |-> r.rest]
    ELSE [value |-> <<>>, rest |-> s]

ParseFail == [ok |-> FALSE, value |-> <<>>, rest |-> <<>>]

RECURSIVE ParseValue(_)
ParseValue(s) ==
    IF s = <<>> THEN ParseFail
    ELSE IF Head(s) = "1"
    THEN LET n == ParseNumber(s)
         IN  [ok |-> TRUE, value |-> n.value, rest |-> n.rest]
    ELSE IF Head(s) = "["
    THEN LET t == SkipWs(Tail(s))
         IN  IF t # <<>> /\ Head(t) = "]"
             THEN [ok |-> TRUE, value |-> <<"[", "]">>, rest |-> Tail(t)]
             ELSE LET e == ParseValue(t)
                      u == SkipWs(e.rest)
                  IN  IF e.ok /\ u # <<>> /\ Head(u) = "]"
                      THEN [ok |-> TRUE,
                            value |-> <<"[">> \o e.value \o <<"]">>,
                            rest |-> Tail(u)]
                      ELSE ParseFail
    ELSE ParseFail

json(text) ==
    LET r == ParseValue(SkipWs(text))
    IN  IF r.ok /\ SkipWs(r.rest) = <<>>
        THEN [ok |-> TRUE, value |-> r.value]
        ELSE [ok |-> FALSE, value |-> <<>>]

---------------------------------------------------------------------------
(* What `requests` hands back: a response with a status and a body text,   *)
(* or a transport exception raised out of requests.post/get.               *)

Response(status_code, text) ==
    [kind |-> "response", status_code |-> status_code, text |-> text]
ConnectionError == [kind |-> "error"]

Answers ==
    {Response(s, t) : s \in Statuses, t \in Bodies} \cup {ConnectionError}

(* Handler outcomes *)
Return(content) == [kind |-> "return", content |-> content]
HTTPException(status_code, detail) ==
    [kind |-> "HTTPException", status_code |-> status_code, detail |-> detail]
Raise(exc) == [kind |-> "raise", exc |-> exc]

Confirmation(message) == <<"message", message>>

(* Variants of the handlers, each with one plausible slip. *)

\* 409 is not special-cased: the backend's body is passed through
register_node_no409(response) ==
    IF response.kind = "error" THEN Raise("ConnectionError")
    ELSE IF response.status_code = 201
    THEN Return(Confirmation("Node registered successfully."))
    ELSE HTTPException(response.status_code, response.text)

\* the success test is 200, as in the other handlers
register_node_200(response) ==
    IF response.kind = "error" THEN Raise("ConnectionError")
    ELSE IF response.status_code = 200
    THEN Return(Confirmation("Node registered successfully."))
    ELSE IF response.status_code = 409
    THEN HTTPException(409, <<"Node already exists.">>)
    ELSE HTTPException(response.status_code, response.text)

\* every backend failure is reported as 502 Bad Gateway
entangle_nodes_502(response) ==
    IF response.kind = "error" THEN Raise("ConnectionError")
    ELSE IF response.status_code = 200
    THEN Return(Confirmation("Nodes entangled successfully."))
    ELSE HTTPException(502, response.text)

\* the success test is the 2xx range (response.ok)
entangle_nodes_2xx(response) ==
    IF response.kind = "error" THEN Raise("ConnectionError")
    ELSE IF response.status_code >= 200 /\ response.status_code < 300
    THEN Return(Confirmation("Nodes entangled successfully."))
    ELSE HTTPException(response.status_code, response.text)

\* the confirmation text of entangle_nodes, copied
exchange_keys_copied(response) ==
    IF response.kind = "error" THEN Raise("ConnectionError")
    ELSE IF response.status_code = 200
    THEN Return(Confirmation("Nodes entangled successfully."))
    ELSE HTTPException(response.status_code, response.text)

\* a fixed confirmation instead of the backend's JSON
send_message_fixed(response) ==
    IF response.kind = "error" THEN Raise("ConnectionError")
    ELSE IF response.status_code = 200
    THEN Return(Confirmation("Message sent successfully."))
    ELSE HTTPException(response.status_code, response.text)

\* response.json() returned without looking at the status
get_node_status_unchecked(response) ==
    IF response.kind = "error" THEN Raise("ConnectionError")
    ELSE IF json(response.text).ok
    THEN Return(json(response.text).value)
    ELSE Raise("JSONDecodeError")

\* a body that does not parse is answered with an empty result
get_node_status_swallow(response) ==
    IF response.kind = "error" THEN Raise("ConnectionError")
    ELSE IF response.status_code = 200
    THEN IF json(response.text).ok
         THEN Return(json(response.text).value)
         ELSE Return(<<>>)
    ELSE HTTPException(response.status_code, response.text)

(* The handlers, from the point where requests.post/get has answered. *)
register_node(response) ==
    IF response.kind = "error" THEN Raise("ConnectionError")
    ELSE IF response.status_code = 201
    THEN Return(Confirmation("Node registered successfully."))
    ELSE IF response.status_code = 409
    THEN HTTPException(409, <<"Node already exists.">>)
    ELSE HTTPException(response.status_code, response.text)

entangle_nodes(response) ==
    IF response.kind = "error" THEN Raise("ConnectionError")
    ELSE IF response.status_code = 200
    THEN Return(Confirmation("Nodes entangled successfully."))
    ELSE HTTPException(response.status_code, response.text)

exchange_keys(response) ==
    IF response.kind = "error" THEN Raise("ConnectionError")
    ELSE IF response.status_code = 200
    THEN Return(Confirmation("Keys exchanged successfully."))
    ELSE HTTPException(response.status_code, response.text)

send_message(response) ==
    IF response.kind = "error" THEN Raise("ConnectionError")
    ELSE IF response.status_code = 200
    THEN IF json(response.text).ok
         THEN Return(json(response.text).value)
         ELSE Raise("JSONDecodeError")
    ELSE HTTPException(response.status_code, response.text)

get_node_status(response) ==
    IF response.kind = "error" THEN Raise("ConnectionError")
    ELSE IF response.status_code = 200
    THEN IF json(response.text).ok
         THEN Return(json(response.text).value)
         ELSE Raise("JSONDecodeError")
    ELSE HTTPException(response.status_code, response.text)

(* FastAPI's routing: the handler bound to the request's route. *)
Handle(op, response) ==
    CASE op = "register" -> register_node(response)
      [] op = "entangle" -> entangle_nodes(response)
      [] op = "exchange_keys" -> exchange_keys(response)
      [] op = "send_message" -> send_message(response)
      [] op = "node_status" -> get_node_status(response)

(* Variant of response: one module-level `response` shared by the workers, *)
(* so a handler may read the answer another invocation received.           *)
response_shared(c) ==
    LET others == {d \in Clients : d # c /\ pc[d] \in {"answered", "done"}}
    IN  IF others = {} THEN resp[c] ELSE resp[CHOOSE d \in others : TRUE]

(* The handler's local variable `response` of invocation c. *)
response(c) == resp[c]

---------------------------------------------------------------------------
(* Steps of a handler invocation *)

Init ==
    /\ RUST_API_URL = "http://localhost:8000"
    /\ pc = [c \in Clients |-> "idle"]
    /\ req = [c \in Clients |-> NoRequest]
    /\ calls = [c \in Clients |-> <<>>]
    /\ resp = [c \in Clients |-> NoResponse]
    /\ result = [c \in Clients |-> NoResult]
    /\ registry = {}
    /\ regCount = [n \in NodeIds |-> 0]

(* A validated request reaches its handler, which issues its outbound call *)
(* and blocks in it.                                                       *)
Accept(c, request) ==
    /\ pc[c] = "idle"
    /\ pc' = [pc EXCEPT ![c] = "waiting"]
    /\ req' = [req EXCEPT ![c] = request]
    /\ calls' = [calls EXCEPT ![c] = Append(@, OutboundCall(RUST_API_URL, request))]
    /\ UNCHANGED <<RUST_API_URL, resp, result, registry, regCount>>

(* requests.post/get comes back with answer a (any backend). *)
BackendRespond(c, a) ==
    /\ pc[c] = "waiting"
    /\ pc' = [pc EXCEPT ![c] = "answered"]
    /\ resp' = [resp EXCEPT ![c] = a]
    /\ UNCHANGED <<RUST_API_URL, req, calls, result, registry, regCount>>

(* The rest of the handler body: status test, return or raise. *)
Finish(c) ==
    /\ pc[c] = "answered"
    /\ pc' = [pc EXCEPT ![c] = "done"]
    /\ result' = [result EXCEPT ![c] = Handle(req[c].op, response(c))]
    /\ UNCHANGED <<RUST_API_URL, req, calls, resp, registry, regCount>>

(* The outcome is sent to the client; the invocation's locals are gone. *)
Deliver(c) ==
    /\ pc[c] = "done"
    /\ pc' = [pc EXCEPT ![c] = "idle"]
    /\ req' = [req EXCEPT ![c] = NoRequest]
    /\ calls' = [calls EXCEPT ![c] = <<>>]
    /\ resp' = [resp EXCEPT ![c] = NoResponse]
    /\ result' = [result EXCEPT ![c] = NoResult]
    /\ UNCHANGED <<RUST_API_URL, registry, regCount>>

(* One request at a time, any request, any backend answer. *)
Next ==
    \/ \E request \in Requests : Accept(1, request)
    \/ \E a \in Answers : BackendRespond(1, a)
    \/ Finish(1)
    \/ Deliver(1)

Spec == Init /\ [][Next]_vars

---------------------------------------------------------------------------
(* Concurrent invocations: FastAPI runs the sync handlers on a threadpool, *)
(* so up to MaxClients invocations are in flight and interleave at their   *)
(* blocking call.  One request per handler and a few backend answers.      *)

ConcRequests ==
    {r \in Requests :
        CASE r.op \in {"register", "node_status"} -> r.node_id = 1
          [] r.op \in {"entangle", "exchange_keys"} -> r.node1 = 1 /\ r.node2 = 1
          [] r.op = "send_message" -> r.sender_id = 1 /\ r.receiver_id = 1}

ConcAnswers ==
    {Response(200, <<"1">>), Response(200, <<"[">>), Response(201, <<"1">>),
     Response(409, <<"[">>), Response(404, <<" ">>), ConnectionError}

NextConcurrent ==
    \E c \in Clients :
        \/ \E request \in ConcRequests : Accept(c, request)
        \/ \E a \in ConcAnswers : BackendRespond(c, a)
        \/ Finish(c)
        \/ Deliver(c)

SpecConcurrent == Init /\ [][NextConcurrent]_vars

---------------------------------------------------------------------------
(* Register calls against a backend that enforces node-id uniqueness: it   *)
(* answers 201 to the first registration of an id and 409 to every later   *)
(* one, with any body text.                                                *)

AcceptRegister(c, request) ==
    /\ regCount[request.node_id] < MaxCalls
    /\ Accept(c, request)

UniqueBackendRespond(c, text) ==
    /\ pc[c] = "waiting"
    /\ req[c].op = "register"
    /\ pc' = [pc EXCEPT ![c] = "answered"]
    /\ resp' = [resp EXCEPT ![c] =
                    IF req[c].node_id \in registry
                    THEN Response(409, text)
                    ELSE Response(201, text)]
    /\ registry' = registry \cup {req[c].node_id}
    /\ regCount' = [regCount EXCEPT ![req[c].node_id] = @ + 1]
    /\ UNCHANGED <<RUST_API_URL, req, calls, result>>

NextUnique ==
    \/ \E request \in RegisterNodeRequest : AcceptRegister(1, request)
    \/ \E text \in Bodies : UniqueBackendRespond(1, text)
    \/ Finish(1)
    \/ Deliver(1)

SpecUnique == Init /\ [][NextUnique]_vars

---------------------------------------------------------------------------
(* Properties *)

Done(c) == pc[c] = "done"
Answered(c) == Done(c) /\ resp[c].kind = "response"
PassThroughOps == {"send_message", "node_status"}

(* The documented success status of each operation (spec.md, section 6). *)
SuccessCode(op) == IF op = "register" THEN 201 ELSE 200

(* The documented success shape of each operation. *)
IsSuccessShape(op, r) ==
    CASE op = "register" ->
            r = [kind |-> "return",
                 content |-> <<"message", "Node registered successfully.">>]
      [] op = "entangle" ->
            r = [kind |-> "return",
                 content |-> <<"message", "Nodes entangled successfully.">>]
      [] op = "exchange_keys" ->
            r = [kind |-> "return",
                 content |-> <<"message", "Keys exchanged successfully.">>]
      [] op \in PassThroughOps -> r.kind = "return"

AlreadyExists ==
    [kind |-> "HTTPException", status_code |-> 409,
     detail |-> <<"Node already exists.">>]

Upstream(status_code, text) ==
    [kind |-> "HTTPException", status_code |-> status_code, detail |-> text]

(* A text without its whitespace characters. *)
StripWs(text) == SelectSeq(text, LAMBDA ch : ch # " ")

(* The outbound call failed at transport level: no answer, or a 200 answer *)
(* to a pass-through operation whose body is not JSON.                     *)
TransportFailure(c) ==
    \/ resp[c].kind = "error"
    \/ /\ resp[c].kind = "response"
       /\ req[c].op \in PassThroughOps
       /\ resp[c].status_code = 200
       /\ ~json(resp[c].text).ok

(* C1 as stated: for every operation and every backend status outside the  *)
(* operation's success set, the client's error status and body equal the   *)
(* backend's status and body.                                              *)
C1_PassThroughEveryStatus ==
    \A c \in Clients :
        Answered(c) /\ resp[c].status_code # SuccessCode(req[c].op)
            => result[c] = Upstream(resp[c].status_code, resp[c].text)

(* C1 amended: for every operation and every backend status outside the    *)
(* operation's success set, other than 409 on register, the raised error's *)
(* status and detail equal the backend's status and body text; for 409 on  *)
(* register the status is 409 and the detail is the fixed text.            *)
C1_PassThroughExceptConflict ==
    \A c \in Clients :
        Answered(c) /\ resp[c].status_code # SuccessCode(req[c].op)
            => IF req[c].op = "register" /\ resp[c].status_code = 409
               THEN result[c] = AlreadyExists
               ELSE result[c] = Upstream(resp[c].status_code, resp[c].text)

C1_Witness ==
    \E c \in Clients :
        /\ Answered(c)
        /\ req[c].op = "entangle"
        /\ resp[c].status_code = 404
        /\ resp[c].text = <<"[", "1">>
        /\ result[c].kind = "HTTPException"
        /\ result[c].detail = <<"[", "1">>

(* C2: register maps 201 to the fixed confirmation, 409 to status 409 with *)
(* the fixed detail whatever the backend's body, and every other status to *)
(* an error carrying the backend's status and body.                        *)
C2_RegisterMapping ==
    \A c \in Clients :
        Answered(c) /\ req[c].op = "register"
            => /\ resp[c].status_code = 201
                    => result[c] =
                         [kind |-> "return",
                          content |-> <<"message", "Node registered successfully.">>]
               /\ resp[c].status_code = 409 => result[c] = AlreadyExists
               /\ resp[c].status_code \notin {201, 409}
                    => result[c] = Upstream(resp[c].status_code, resp[c].text)

C2_Witness ==
    \E c \in Clients :
        /\ Answered(c)
        /\ req[c].op = "register"
        /\ resp[c].status_code = 409
        /\ resp[c].text = <<"1", " ">>
        /\ result[c] = AlreadyExists

(* C3: against the uniqueness-enforcing backend, the first register call   *)
(* for a node id returns the confirmation and every later call for that id *)
(* fails with 409 "Node already exists.", whatever calls for other ids     *)
(* come in between.                                                        *)
C3_FirstThenAlreadyExists ==
    \A c \in Clients :
        Done(c) /\ req[c].op = "register"
            => /\ regCount[req[c].node_id] = 1
                    => IsSuccessShape("register", result[c])
               /\ regCount[req[c].node_id] > 1 => result[c] = AlreadyExists

C3_Witness ==
    \E c \in Clients :
        /\ Done(c)
        /\ req[c].op = "register"
        /\ regCount[req[c].node_id] = 3
        /\ \E n \in NodeIds : n # req[c].node_id /\ regCount[n] = 2
        /\ result[c] = AlreadyExists

(* C4: when the backend answers sendMessage or getNodeStatus with 200 and  *)
(* a JSON body, the handler returns that JSON value: the body's tokens,    *)
(* insignificant whitespace aside, and no fixed confirmation.              *)
C4_JsonBodyUnchanged ==
    \A c \in Clients :
        /\ Answered(c)
        /\ req[c].op \in PassThroughOps
        /\ resp[c].status_code = 200
        /\ json(resp[c].text).ok
        => /\ result[c].kind = "return"
           /\ result[c].content = StripWs(resp[c].text)

C4_Witness ==
    \E c \in Clients :
        /\ Answered(c)
        /\ req[c].op = "send_message"
        /\ resp[c].status_code = 200
        /\ resp[c].text = <<"[", "]">>
        /\ result[c] = [kind |-> "return", content |-> <<"[", "]">>]

(* C5: entangle and exchangeKeys return their own fixed confirmation on    *)
(* 200, whatever the backend's body, and fail with the backend's status    *)
(* and body on every other status.                                         *)
C5_EntangleExchangeMapping ==
    \A c \in Clients :
        Answered(c) /\ req[c].op \in {"entangle", "exchange_keys"}
            => IF resp[c].status_code = 200
               THEN IsSuccessShape(req[c].op, result[c])
               ELSE result[c] = Upstream(resp[c].status_code, resp[c].text)

C5_Witness ==
    \E c \in Clients :
        /\ Answered(c)
        /\ req[c].op = "exchange_keys"
        /\ resp[c].status_code = 200
        /\ resp[c].text = <<"]">>
        /\ result[c].kind = "return"
        /\ result[c].content = <<"message", "Keys exchanged successfully.">>

(* C6 as stated: every forwarded request ends either in the operation's    *)
(* success shape or in an HTTP error whose status and body are those of    *)
(* the backend's error, and never in an error with a success status.       *)
C6_SuccessOrMirroredError ==
    \A c \in Clients :
        Done(c)
            => \/ IsSuccessShape(req[c].op, result[c])
               \/ /\ resp[c].kind = "response"
                  /\ result[c] = Upstream(resp[c].status_code, resp[c].text)
                  /\ ~(result[c].status_code \in 200..299)

(* C6 amended: every forwarded request ends in exactly one of three        *)
(* outcomes.  The success shape, when the backend's status is the success  *)
(* code (and, for sendMessage and getNodeStatus, the body is JSON).  An    *)
(* HTTPException with the backend's status, which may be a 2xx other than  *)
(* the success code, and the backend's body text as detail (the fixed text *)
(* for 409 on register), when the status is not the success code.  The     *)
(* unhandled transport exception, when the call failed at transport level. *)
C6_ThreeOutcomes ==
    \A c \in Clients :
        Done(c)
            => IF TransportFailure(c)
               THEN result[c].kind = "raise"
               ELSE IF resp[c].status_code = SuccessCode(req[c].op)
               THEN IsSuccessShape(req[c].op, result[c])
               ELSE IF req[c].op = "register" /\ resp[c].status_code = 409
               THEN result[c] = AlreadyExists
               ELSE result[c] = Upstream(resp[c].status_code, resp[c].text)

C6_Witness ==
    \E c \in Clients :
        /\ Answered(c)
        /\ req[c].op = "register"
        /\ resp[c].status_code = 200
        /\ result[c].kind = "HTTPException"
        /\ result[c].status_code = 200

(* C7: every accepted request has exactly one outbound call, from the      *)
(* moment it is accepted until its outcome is delivered and whatever the   *)
(* backend answered: to the backend route named like the client route,     *)
(* with the request's field values, by GET for getNodeStatus and by POST   *)
(* for the other four.                                                     *)
C7_ExactlyOneCall ==
    \A c \in Clients :
        IF pc[c] = "idle" THEN calls[c] = <<>>
        ELSE /\ Len(calls[c]) = 1
             /\ LET call == calls[c][1]
                    r == req[c]
                IN  /\ call.method = Route(r.op).method
                    /\ call.method = (IF r.op = "node_status" THEN "GET" ELSE "POST")
                    /\ call.url[1] = "http://localhost:8000"
                    /\ call.url[2] = Route(r.op).path
                    /\ CASE r.op = "register" ->
                              /\ Len(call.url) = 2
                              /\ DOMAIN call.json = {"node_id"}
                              /\ call.json.node_id = r.node_id
                         [] r.op \in {"entangle", "exchange_keys"} ->
                              /\ Len(call.url) = 2
                              /\ DOMAIN call.json = {"node1", "node2"}
                              /\ call.json.node1 = r.node1
                              /\ call.json.node2 = r.node2
                         [] r.op = "send_message" ->
                              /\ Len(call.url) = 2
                              /\ DOMAIN call.json = {"sender_id", "receiver_id", "message"}
                              /\ call.json.sender_id = r.sender_id
                              /\ call.json.receiver_id = r.receiver_id
                              /\ call.json.message = r.message
                         [] r.op = "node_status" ->
                              /\ SubSeq(call.url, 3, Len(call.url)) = IntToText(r.node_id)
                              /\ call.json = NoJson

C7_Witness ==
    \E c \in Clients :
        /\ Answered(c)
        /\ req[c].op = "entangle"
        /\ req[c].node1 = 1
        /\ req[c].node2 = 2
        /\ resp[c].status_code = 404
        /\ Len(calls[c]) = 1
        /\ calls[c][1].json = [node1 |-> 1, node2 |-> 2]

(* C8: the backend base address never changes, and under every             *)
(* interleaving of concurrent requests each outcome depends only on the    *)
(* request's own input and the answer to its own call: an error carries    *)
(* the status of the request's own answer, a success comes from an own     *)
(* answer with the success code, and two requests with the same input and  *)
(* the same answer have the same outcome.                                  *)
C8_NoInterference ==
    /\ RUST_API_URL = "http://localhost:8000"
    /\ \A c \in Clients :
          Done(c)
            => /\ result[c].kind = "HTTPException"
                    => /\ resp[c].kind = "response"
                       /\ result[c].status_code = resp[c].status_code
               /\ result[c].kind = "return"
                    => /\ resp[c].kind = "response"
                       /\ resp[c].status_code = SuccessCode(req[c].op)
               /\ result[c].kind = "raise" => TransportFailure(c)
    /\ \A c, d \in Clients :
          Done(c) /\ Done(d) /\ req[c] = req[d] /\ resp[c] = resp[d]
            => result[c] = result[d]

C8_Witness ==
    \E c, d \in Clients :
        /\ c # d
        /\ Done(c) /\ Done(d)
        /\ req[c].op = "register" /\ req[d].op = "register"
        /\ resp[c] # resp[d]
        /\ result[c].kind = "return"
        /\ result[d] = AlreadyExists

(* C9: when the outbound call fails at transport level, the handler        *)
(* returns no success shape and raises no HTTPException: the transport     *)
(* exception leaves the handler, and no second call has been made.         *)
C9_TransportErrorSurfaces ==
    \A c \in Clients :
        Done(c) /\ TransportFailure(c)
            => /\ result[c].kind = "raise"
               /\ Len(calls[c]) = 1

C9_Witness ==
    \E c \in Clients :
        /\ Answered(c)
        /\ req[c].op = "node_status"
        /\ resp[c].status_code = 200
        /\ resp[c].text = <<"[", " ">>
        /\ result[c] = [kind |-> "raise", exc |-> "JSONDecodeError"]

(* C10: the success test is an equality: a handler returns only when the   *)
(* backend's status is exactly 201 (register) or 200 (the others), and any *)
(* other 2xx status is raised as an error carrying that status and the     *)
(* backend's body.                                                         *)
C10_SuccessIsOneCode ==
    \A c \in Clients :
        Answered(c)
            => /\ result[c].kind = "return"
                    => resp[c].status_code =
                         (IF req[c].op = "register" THEN 201 ELSE 200)
               /\ /\ resp[c].status_code \in 200..299
                  /\ resp[c].status_code #
                         (IF req[c].op = "register" THEN 201 ELSE 200)
                  => result[c] = Upstream(resp[c].status_code, resp[c].text)

C10_Witness ==
    \E c \in Clients :
        /\ Answered(c)
        /\ req[c].op = "entangle"
        /\ resp[c].status_code = 204
        /\ result[c] = Upstream(204, resp[c].text)

=============================================================================
